---------------------------- MODULE Spec2Model ----------------------------
(***************************************************************************)
(* NeuralFeedback (src/app.py): the /generate request handler, its worker  *)
(* pool of generate_review calls, the reassembly of their results, the     *)
(* summary call, the fallback builder and the session's persona list.      *)
(*                                                                         *)
(* An optional value of the code (None or a value) is a set with at most   *)
(* one element: {} is None, {v} is v.                                      *)
(***************************************************************************)
EXTENDS Integers, Sequences, FiniteSets, TLC

(***************************************************************************)
(* Bounds of the model.                                                    *)
(***************************************************************************)
\* largest numReviews a request of specification Spec asks for
MaxCount == 3
\* how far past the pool size the batch of specification SpecPool goes
PoolExtra == 1
\* largest numReviews a request of specification SpecRatings asks for
RatingBatch == 2
\* largest numReviews a request of specification SpecSparse asks for
SparseBatch == 2
\* how far below 0 and above 20 the counts of specification SpecBuilder go
BuilderSpan == 3
\* most bullet lines in a section of the summary text
MaxBullets == 7
\* largest persona id a chat request of specification SpecChat names
MaxChatId == 4
\* most voice calls of specification SpecCall
MaxCalls == 2
\* most requests for chat pages and chat replies in one behaviour
MaxChats == 2

(***************************************************************************)
(* Program constants.                                                      *)
(***************************************************************************)
\* ThreadPoolExecutor(max_workers=min(10, num_reviews))
MAX_WORKERS == 10
\* max(1, min(20, int(numReviews)))
MIN_REVIEWS == 1
MAX_REVIEWS == 20
\* data.get("numReviews", 5)
DEFAULT_REVIEWS == 5
\* the except handler's count when the request was not JSON, or was 0
HANDLER_REVIEWS == 3
\* rating of a review whose rating is missing or not an integer
DEFAULT_RATING == 5
MIN_RATING == 1
MAX_RATING == 10
\* build_fallback_personas: rating = 6 + (idx % 3), five templates
FALLBACK_BASE_RATING == 6
FALLBACK_TEMPLATES == 5
\* random.randint(age_min_val, 100), random.randint(18, age_max_val)
AGE_CEILING == 100
AGE_FLOOR == 18
\* random.randint(22, 65)
AGE_DEFAULT_LO == 22
AGE_DEFAULT_HI == 65
\* return glows[:5], grows[:5]
SUMMARY_LIMIT == 5
\* CALL_HISTORY_LIMIT, line 74
CALL_HISTORY_LIMIT == 6

\* INTENSITY_LEVELS = [0.9, 1.0, 1.1], in tenths
INTENSITY_LEVELS == <<9, 10, 11>>

Min(a, b) == IF a <= b THEN a ELSE b
Max(a, b) == IF a >= b THEN a ELSE b

(***************************************************************************)
(* Values of a JSON member, by what the code's tests tell apart:           *)
(*   absent  the key is missing, or null                                   *)
(*   empty   a falsy value: "", 0, [], {}, false                           *)
(*   blank   a string of white space only                                  *)
(*   str     a string with text in it                                      *)
(*   num     a number other than 0                                         *)
(*   list    a list with elements                                          *)
(*   dict    an object with members                                        *)
(***************************************************************************)
ValueKinds == {"absent", "empty", "blank", "str", "num", "list", "dict"}

Truthy(v) == v \notin {"absent", "empty"}

\* (value or "").strip(): "" , the stripped text, or AttributeError
StripOrEmpty(v) ==
    IF ~Truthy(v) THEN "empty"
    ELSE IF v = "blank" THEN "empty"
    ELSE IF v = "str" THEN "str"
    ELSE "AttributeError"

\* (parsed.get(key, {}) or {}).get(...): a dict to read, or AttributeError
DictOrEmpty(v) ==
    IF ~Truthy(v) THEN "emptydict"
    ELSE IF v = "dict" THEN "dict"
    ELSE "AttributeError"

\* A value as it arrives in a request or in the provider's JSON: an integer
\* (or text that int() reads as one), or something int() rejects
IntVal(n) == [kind |-> "int", val |-> n]
NotInt == [kind |-> "other", val |-> 0]

\* parse_int, lines 107-119: None, "" and what is no integer give None
parse_int(value) ==
    IF value = {} THEN {}
    ELSE LET v == CHOOSE x \in value : TRUE
         IN IF v.kind = "int" THEN {v.val} ELSE {}

\* an integer the code already holds, passed to parse_int again
Held(opt) == {IntVal(x) : x \in opt}

\* the rating capped from above only
ClampRatingUpper(r) == Min(MAX_RATING, r)

\* max(1, min(10, rating))
ClampRating(r) == Max(MIN_RATING, Min(MAX_RATING, r))

\* the count capped from above only
ClampCountUpper(n) == Min(MAX_REVIEWS, n)

\* max(1, min(20, n))
ClampCount(n) == Max(MIN_REVIEWS, Min(MAX_REVIEWS, n))


(***************************************************************************)
(* The provider's answer to one generate_content call, by what             *)
(* generate_review reads of it.                                            *)
(*   raises     the call (or response.text) raises                         *)
(*   shape      "empty": no text; "text": text that is not JSON;           *)
(*              "json_other": JSON that is no object with members;         *)
(*              "json_dict": a JSON object with members                    *)
(*   freeRating the digits after the first "RATING:" of the text, if any   *)
(*   freeBody   whether text remains once a trailing RATING line is cut    *)
(*   persona, review, rtext, pname, pother: the kinds of parsed["persona"],*)
(*   parsed["review"], review["text"], persona["name"] and of the other    *)
(*   members the code strips (gender, location, profession, tone,          *)
(*   descriptor)                                                           *)
(*   rating     review["rating"]; page: persona["age"]                     *)
(*   ptraits    persona["traits"]: "absent" (missing, no list or empty),   *)
(*              "strs" (a list of strings), "mixed" (a list holding a      *)
(*              member that is no string)                                  *)
(***************************************************************************)
ProviderRaises ==
    [raises |-> TRUE, shape |-> "empty", freeRating |-> {}, freeBody |-> FALSE,
     persona |-> "absent", review |-> "absent", rtext |-> "absent",
     rating |-> {}, pname |-> "absent", pother |-> "absent",
     ptraits |-> "absent", page |-> {}]

PlainOutput(shape, freeRating, freeBody) ==
    [ProviderRaises EXCEPT !.raises = FALSE, !.shape = shape,
                           !.freeRating = freeRating, !.freeBody = freeBody]

JsonOutput(persona, review, rtext, rating, pname, pother, ptraits, page) ==
    [raises |-> FALSE, shape |-> "json_dict", freeRating |-> {}, freeBody |-> TRUE,
     persona |-> persona, review |-> review, rtext |-> rtext,
     rating |-> rating, pname |-> pname, pother |-> pother,
     ptraits |-> ptraits, page |-> page]

\* the keys of the metadata build_metadata_from_text makes, lines 335-350
TextMetadataKeys ==
    {"persona_name", "persona_descriptor", "characteristics",
     "characteristic_intensities", "sentiment_rating",
     "personality_description", "age_range", "age", "gender", "location",
     "tone", "profession", "traits_summary", "source_documents_used"}

\* the keys of the metadata of lines 410-426 ("review_summary" is added only
\* for a review that has a summary)
JsonMetadataKeys == TextMetadataKeys \cup {"motivations"}

\* the keys of the metadata build_fallback_personas makes, lines 1137-1144
FallbackMetadataKeys ==
    {"persona_name", "persona_descriptor", "characteristics",
     "sentiment_rating", "location", "personality_description"}

\* the keys of a persona record, lines 711-716 and 1133-1145
RecordKeys == {"id", "index", "review", "metadata"}

\* the result of generate_review: (review, None), (None, err), or an
\* exception; sampled is the age random.randint drew during the call, if
\* the call came to draw one, and prompted the age the prompt states; keys
\* are the keys of the metadata
ErrorResult(err) ==
    [status |-> "error", err |-> err, text |-> "none", rating |-> 0,
     name |-> "none", nameAge |-> {}, age |-> {}, traits |-> "none",
     sampled |-> {}, prompted |-> {}, keys |-> {}]

RaisedResult(exc) == [ErrorResult(exc) EXCEPT !.status = "raised"]

ReviewResult(text, rating, name, nameAge, age, traits) ==
    [status |-> "review", err |-> "none", text |-> text, rating |-> rating,
     name |-> name, nameAge |-> nameAge, age |-> age, traits |-> traits,
     sampled |-> {}, prompted |-> {}, keys |-> TextMetadataKeys]

\* the bounds as given, not put in order
AgeBoundsUnswapped(age_min, age_max) ==
    IF age_min # {} /\ age_max # {}
    THEN <<CHOOSE x \in age_min : TRUE, CHOOSE x \in age_max : TRUE>>
    ELSE IF age_min # {} THEN <<CHOOSE x \in age_min : TRUE, AGE_CEILING>>
    ELSE IF age_max # {} THEN <<AGE_FLOOR, CHOOSE x \in age_max : TRUE>>
    ELSE <<AGE_DEFAULT_LO, AGE_DEFAULT_HI>>

\* the bounds random.randint is called with (lines 230-244)
AgeBounds(age_min, age_max) ==
    IF age_min # {} /\ age_max # {}
    THEN LET a == CHOOSE x \in age_min : TRUE
             b == CHOOSE x \in age_max : TRUE
         IN <<Min(a, b), Max(a, b)>>
    ELSE IF age_min # {} THEN <<CHOOSE x \in age_min : TRUE, AGE_CEILING>>
    ELSE IF age_max # {} THEN <<AGE_FLOOR, CHOOSE x \in age_max : TRUE>>
    ELSE <<AGE_DEFAULT_LO, AGE_DEFAULT_HI>>

\* "if generated_age:" is false for the age 0
AgeShown(generated_age) == IF generated_age = 0 THEN {} ELSE {generated_age}

\* the same without the substitute of line 322 for an empty text
build_metadata_keeps_empty(generated_age, freeRating, body) ==
    LET rating == IF freeRating # {} THEN CHOOSE r \in freeRating : TRUE
                  ELSE DEFAULT_RATING
    IN ReviewResult(body, ClampRating(rating), "generated",
                    AgeShown(generated_age), {generated_age}, "selected")

\* build_metadata_from_text(raw_output), lines 315-351: body is what is left
\* of the text once a trailing RATING line is cut, "empty" when nothing is;
\* the name is a random first and last name
build_metadata_from_text(generated_age, freeRating, body) ==
    LET rating == IF freeRating # {} THEN CHOOSE r \in freeRating : TRUE
                  ELSE DEFAULT_RATING
        review_text == IF body = "empty" THEN "no_feedback" ELSE body
    IN ReviewResult(review_text, ClampRating(rating), "generated",
                    AgeShown(generated_age), {generated_age}, "selected")

\* lines 382-431: the review record of a JSON object whose review has text
JsonMetadata(generated_age, out) ==
    LET persona_info == DictOrEmpty(out.persona)
        persona_name == IF persona_info = "dict" THEN StripOrEmpty(out.pname)
                        ELSE "empty"
        rating_value == IF parse_int(out.rating) = {} THEN DEFAULT_RATING
                        ELSE CHOOSE r \in parse_int(out.rating) : TRUE
        persona_age == IF AgeShown(generated_age) # {} THEN {generated_age}
                       ELSE IF persona_info = "dict" THEN parse_int(out.page)
                       ELSE {}
        persona_traits == IF persona_info = "dict" /\ out.ptraits = "strs"
                          THEN "provider_strs"
                          ELSE IF persona_info = "dict" /\ out.ptraits = "mixed"
                          THEN "provider_mixed"
                          ELSE "selected"
    IN  [ReviewResult("feedback", ClampRating(rating_value),
                      IF persona_name = "str" THEN "provider" ELSE "generated",
                      IF persona_age = {0} THEN {} ELSE persona_age,
                      persona_age, persona_traits)
            EXCEPT !.keys = JsonMetadataKeys]

\* lines 374-435: the response parsed as a JSON object with members; an
\* AttributeError (.get or .strip of a value of another type) is caught by
\* the except clause of line 432
ReviewFromJson(generated_age, out) ==
    LET review_info == DictOrEmpty(out.review)
        review_text == IF review_info = "dict" THEN StripOrEmpty(out.rtext)
                       ELSE IF review_info = "emptydict" THEN "empty"
                       ELSE "AttributeError"
        persona_info == DictOrEmpty(out.persona)
        persona_name == IF persona_info = "dict" THEN StripOrEmpty(out.pname)
                        ELSE persona_info
        persona_other == IF persona_info = "dict" THEN StripOrEmpty(out.pother)
                         ELSE persona_info
    IN  IF review_text = "AttributeError"
        THEN ErrorResult("Gemini error")
        ELSE IF review_text = "empty"
        THEN build_metadata_from_text(generated_age, {}, "raw_output")
        ELSE IF "AttributeError" \in {persona_info, persona_name, persona_other}
        THEN ErrorResult("Gemini error")
        ELSE JsonMetadata(generated_age, out)

\* generate_review once random.randint has returned generated_age
ReviewWithAge(generated_age, out) ==
    IF out.raises THEN ErrorResult("Gemini error")
    ELSE IF out.shape = "empty"
         THEN build_metadata_from_text(generated_age, {}, "empty")
    ELSE IF out.shape = "text"
         THEN build_metadata_from_text(generated_age, out.freeRating,
                  IF out.freeBody THEN "free_text" ELSE "empty")
    ELSE IF out.shape = "json_other"
         THEN build_metadata_from_text(generated_age, {}, "raw_output")
    ELSE ReviewFromJson(generated_age, out)

\* whether generate_review gets as far as model.generate_content
CallsProvider(configured_, traits, age_min, age_max) ==
    LET bounds == AgeBounds(parse_int(age_min), parse_int(age_max))
    IN configured_ /\ traits # <<>> /\ bounds[1] <= bounds[2]

\* generate_review, lines 206-435: the results it may give when the provider
\* answers out, one for each value random.randint may draw; randint raises
\* ValueError, outside the try of line 353, when its range is empty
generate_review(configured_, traits, age_min, age_max, out) ==
    LET bounds == AgeBounds(parse_int(age_min), parse_int(age_max))
    IN  IF ~configured_ THEN {ErrorResult("Gemini API key not configured")}
        ELSE IF traits = <<>> THEN {ErrorResult("No characteristics selected")}
        ELSE IF bounds[1] > bounds[2] THEN {RaisedResult("ValueError")}
        ELSE {[ReviewWithAge(generated_age, out)
                    EXCEPT !.sampled = {generated_age},
                           !.prompted = AgeShown(generated_age)] :
                 generated_age \in bounds[1]..bounds[2]}

(***************************************************************************)
(* Persona records, as the dispatcher and the fallback builder make them.  *)
(***************************************************************************)
\* lines 709-719: the record /generate appends for a review of task id
LiveRecord(id, r) ==
    [id |-> id, origin |-> "live", text |-> r.text, rating |-> r.rating,
     name |-> IF r.name \in {"none", "empty"} THEN "Persona id" ELSE r.name,
     traits |-> r.traits, template |-> 0, fields |-> RecordKeys,
     keys |-> r.keys]

\* build_fallback_personas, lines 1071-1149: None when text[:60] raises
\* (text is no string), else the records for idx in range(max(1, n))
build_fallback_personas(textKind, num_reviewers, selected_characteristics) ==
    IF textKind = "nonstr" THEN {}
    ELSE {[idx \in 1..Max(1, num_reviewers) |->
            [id |-> idx, origin |-> "fallback", text |-> "templated",
             rating |-> FALLBACK_BASE_RATING + ((idx - 1) % 3),
             name |-> "generated",
             traits |-> IF selected_characteristics = <<>> THEN "default"
                        ELSE "selected",
             template |-> ((idx - 1) % FALLBACK_TEMPLATES) + 1,
             fields |-> RecordKeys, keys |-> FallbackMetadataKeys]]}

\* a persona list an earlier batch left in the session
PriorPersonas ==
    <<[id |-> 1, origin |-> "prior", text |-> "feedback", rating |-> 7,
       name |-> "provider", traits |-> "selected", template |-> 0,
       fields |-> RecordKeys, keys |-> JsonMetadataKeys]>>

\* reviews.sort(key=lambda item: item["id"]), line 726: a stable sort, so an
\* item goes behind the items of a smaller id and the earlier items of its id
SortedPosition(list, i) ==
    Cardinality({j \in 1..Len(list) :
                    \/ list[j].id < list[i].id
                    \/ list[j].id = list[i].id /\ j <= i})

SortById(list) ==
    [k \in 1..Len(list) |->
        list[CHOOSE i \in 1..Len(list) : SortedPosition(list, i) = k]]

RemoveAt(list, k) == SubSeq(list, 1, k - 1) \o SubSeq(list, k + 1, Len(list))

(***************************************************************************)
(* State.                                                                  *)
(*   configured    genai and GEMINI_API_KEY are both set (lines 50-56)     *)
(*   req           the /generate request: transport ("json", or "form"     *)
(*                 when request.files is not empty), text ("blank",        *)
(*                 "idea", or "nonstr": a JSON value that is no string),   *)
(*                 numReviews (optional), traits, ageMin, ageMax           *)
(*   outputs       the answers the provider may give in this run           *)
(*   stalled       the task whose provider call never returns, 0 if none   *)
(*   summaryStalled  whether the summary's provider call never returns     *)
(*   fifo          whether the provider answers its calls in the order     *)
(*                 they were made, and as_completed yields in that order   *)
(*   session       session["personas"]; sessionWrites counts its writes    *)
(*   pc            the handler's position: "idle", "submit", "collect",    *)
(*                 "summary", "done"                                       *)
(*   tasks         the task list of lines 663-681                          *)
(*   submitted     how many tasks executor.submit has taken                *)
(*   threads       worker threads of the pool; queue: its work queue;      *)
(*                 running: the tasks inside generate_review               *)
(*   results       the future of each task: {} while it is not done, else  *)
(*                 what generate_review returned or raised                 *)
(*   finished      tasks whose future is done and not yet yielded by       *)
(*                 as_completed, in completion order                       *)
(*   pending       tasks whose future as_completed has not yielded;        *)
(*                 yielded: the tasks in the order it yielded them         *)
(*   reviews, errors   the lists of line 683                               *)
(*   providerCalls     generate_content calls made                         *)
(*   fallbackBuilds    build_fallback_personas calls made                  *)
(*   summaryCalls, summaryArg   generate_feedback_summary calls, and the   *)
(*                 list given to the last one                              *)
(*   maxRunning    the most tasks that were running at once                *)
(*   response      what the request returned                               *)
(*   reviewIn, reviewOut   one generate_review call on its own: its        *)
(*                 arguments and the provider's answer, and its result     *)
(*   summaryIn, summaryOut   one generate_feedback_summary call on its     *)
(*                 own: the review list and the provider's answer, and     *)
(*                 its result                                              *)
(*   chatIn, chatOut   one POST /api/chat/<id>: the id, the message and    *)
(*                 the provider's answer, and the response                 *)
(*   chatCount     requests for the chat page and for chat replies made    *)
(*   callHistory   session["call_history_<id>"] for each persona id, the   *)
(*                 empty list where the key is not set                     *)
(*   callLog       for each persona id, the whole conversation the voice   *)
(*                 calls have worked on, nothing dropped                   *)
(*   callOut       the last POST /api/call/<id> and its response           *)
(*   callCount     voice calls made                                        *)
(***************************************************************************)
VARIABLES configured, req, outputs, stalled, summaryStalled, fifo, session,
          sessionWrites,
          pc, tasks, submitted, threads, queue, running, results, finished,
          pending, yielded, reviews, errors, providerCalls, fallbackBuilds,
          summaryCalls, summaryArg, maxRunning, response, reviewIn, reviewOut,
          summaryIn, summaryOut, chatIn, chatOut, chatCount, callHistory,
          callLog, callOut, callCount

vars == <<configured, req, outputs, stalled, summaryStalled, fifo, session,
          sessionWrites,
          pc, tasks, submitted, threads, queue, running, results, finished,
          pending, yielded, reviews, errors, providerCalls, fallbackBuilds,
          summaryCalls, summaryArg, maxRunning, response, reviewIn, reviewOut,
          summaryIn, summaryOut, chatIn, chatOut, chatCount, callHistory,
          callLog, callOut, callCount>>

envVars == <<configured, req, outputs, stalled, summaryStalled, fifo, reviewIn,
             reviewOut, summaryIn, summaryOut, chatIn, chatOut, chatCount,
             callHistory, callLog, callOut, callCount>>
chatVars == <<chatIn, chatOut, chatCount>>
callVars == <<callHistory, callLog, callOut, callCount>>
poolVars == <<tasks, submitted, threads, queue, running, results, finished,
              pending, yielded, reviews, errors, maxRunning>>

NoResponse ==
    [kind |-> "none", status |-> 0, error |-> "none", reviews |-> <<>>,
     fallback |-> <<>>, message |-> "none", summary |-> "none",
     successCount |-> 0, errorCount |-> 0, errors |-> <<>>]

(***************************************************************************)
(* Inputs.                                                                 *)
(***************************************************************************)
\* a JSON answer as the prompt asks for it
GoodJson ==
    JsonOutput("dict", "dict", "str", {IntVal(8)}, "str", "str", "absent", {})
\* the same, with persona.traits a list that holds a number
MixedTraitsJson ==
    JsonOutput("dict", "dict", "str", {IntVal(8)}, "str", "str", "mixed", {})

BatchOutputs == {GoodJson, MixedTraitsJson, ProviderRaises}

SelectedTraits == <<"analytical", "skeptical">>

\* ageMin = ageMax = 30; only ageMax = 10, for which randint(18, 10) raises
AgePairs == {<<{IntVal(30)}, {IntVal(30)}>>, <<{}, {IntVal(10)}>>}

Requests(nums) ==
    {r \in [transport : {"json", "form"}, text : {"blank", "idea", "nonstr"},
            numReviews : nums, traits : {<<>>, SelectedTraits},
            ages : AgePairs] :
        r.transport = "form" => r.text # "nonstr"}

\* the arguments of a generate_review call, and the provider's answer to it
ReviewCall(traits, age_min, age_max, out) ==
    [traits |-> traits, age_min |-> age_min, age_max |-> age_max, out |-> out]

NoReviewCall == ReviewCall(<<>>, {}, {}, ProviderRaises)

\* the argument of a generate_feedback_summary call, and the provider's
\* answer to it
SummaryCall(list, raises, lines) ==
    [list |-> list, answer |-> [raises |-> raises, lines |-> lines]]

NoSummaryCall == SummaryCall(<<>>, TRUE, <<>>)

\* a chat request: the id of its URL, the kind of payload["message"], and
\* what the provider does when called: "raises", "empty" or "text"
ChatRequest(persona_id, message, answer) ==
    [persona_id |-> persona_id, message |-> message, answer |-> answer]

NoChatRequest == ChatRequest(0, "absent", "raises")

\* the persona ids voice calls are made for
CallIds == 1..2

\* the state a request arrives in, but for the request itself and the
\* voice histories of the session
IdleBeforeCalls(outs, stalls, summaryStalls, inOrder) ==
    /\ configured \in BOOLEAN
    /\ outputs = outs
    /\ stalled \in stalls
    /\ summaryStalled \in summaryStalls
    /\ fifo = inOrder
    /\ session = PriorPersonas
    /\ sessionWrites = 0
    /\ pc = "idle"
    /\ tasks = <<>>
    /\ submitted = 0
    /\ threads = 0
    /\ queue = <<>>
    /\ running = {}
    /\ results = <<>>
    /\ finished = <<>>
    /\ pending = {}
    /\ yielded = <<>>
    /\ reviews = <<>>
    /\ errors = <<>>
    /\ providerCalls = 0
    /\ fallbackBuilds = 0
    /\ summaryCalls = 0
    /\ summaryArg = <<>>
    /\ maxRunning = 0
    /\ response = NoResponse
    /\ reviewIn = NoReviewCall
    /\ reviewOut = {}
    /\ summaryIn = NoSummaryCall
    /\ summaryOut = {}
    /\ chatIn = NoChatRequest
    /\ chatOut = {}
    /\ chatCount = 0
    /\ callOut = {}
    /\ callCount = 0

\* the same in a session that holds no voice history
IdleWith(outs, stalls, summaryStalls, inOrder) ==
    /\ IdleBeforeCalls(outs, stalls, summaryStalls, inOrder)
    /\ callHistory = [id \in CallIds |-> <<>>]
    /\ callLog = [id \in CallIds |-> <<>>]

InitWith(nums, outs, stalls, summaryStalls, inOrder) ==
    /\ req \in Requests(nums)
    /\ IdleWith(outs, stalls, summaryStalls, inOrder)

SmallNums == {{NotInt}} \cup {{IntVal(n)} : n \in 0..MaxCount}

Init == InitWith(SmallNums, BatchOutputs, {0}, {FALSE}, FALSE)

(***************************************************************************)
(* /generate, lines 594-794.                                               *)
(***************************************************************************)
\* int(data.get("numReviews", 5)): the integer, or None for its ValueError
RequestedCount(r) ==
    IF r.numReviews = {} THEN {DEFAULT_REVIEWS} ELSE parse_int(r.numReviews)

\* lines 604-637 raise: .strip() of a text that is no string, or int() of a
\* numReviews that is no integer
ParseRaises(r) == r.text = "nonstr" \/ RequestedCount(r) = {}

\* text after (data.get("text") or "").strip()
TextGiven(r) == r.text = "idea"

\* the fallback response of lines 649-660, 734-746 and 783-794
FallbackResponse(error, fallback, details) ==
    [NoResponse EXCEPT !.kind = "fallback", !.status = 500, !.error = error,
                       !.fallback = fallback, !.message = "simulated",
                       !.summary = "empty", !.errors = details]

\* the except clause, lines 773-794. "data" is a local only for a JSON
\* request; int() of line 778 and text[:60] of line 1109 may raise again, and
\* then the exception leaves the handler.
HandleException(exc) ==
    LET isJson == req.transport = "json"
        count == IF isJson THEN RequestedCount(req) ELSE {HANDLER_REVIEWS}
        n == IF count = {0} THEN HANDLER_REVIEWS ELSE CHOOSE c \in count : TRUE
        fb == build_fallback_personas(IF isJson THEN req.text ELSE "blank", n,
                                      IF isJson THEN req.traits ELSE <<>>)
    IN  /\ pc' = "done"
        /\ IF count = {} \/ fb = {}
           THEN /\ response' = [NoResponse EXCEPT !.kind = "unhandled",
                                                  !.status = 500, !.error = exc]
                /\ fallbackBuilds' = fallbackBuilds + (IF count = {} THEN 0 ELSE 1)
                /\ UNCHANGED <<session, sessionWrites>>
           ELSE /\ response' = FallbackResponse(exc, CHOOSE f \in fb : TRUE, <<>>)
                /\ fallbackBuilds' = fallbackBuilds + 1
                /\ session' = CHOOSE f \in fb : TRUE
                /\ sessionWrites' = sessionWrites + 1

\* lines 604-637 raise and the except clause runs
Malformed ==
    /\ pc = "idle"
    /\ ParseRaises(req)
    /\ HandleException(IF req.text = "nonstr" THEN "AttributeError" ELSE "ValueError")
    /\ UNCHANGED <<envVars, poolVars, providerCalls, summaryCalls, summaryArg>>

\* lines 640-643: the validation errors
Invalid ==
    /\ pc = "idle"
    /\ ~ParseRaises(req)
    /\ ~TextGiven(req) \/ req.traits = <<>>
    /\ pc' = "done"
    /\ response' = [NoResponse EXCEPT !.kind = "validation", !.status = 400,
                        !.error = IF ~TextGiven(req) THEN "Please enter a product idea!"
                                  ELSE "Please select at least one persona trait!"]
    /\ UNCHANGED <<envVars, poolVars, session, sessionWrites, providerCalls,
                   fallbackBuilds, summaryCalls, summaryArg>>

Valid(r) == ~ParseRaises(r) /\ TextGiven(r) /\ r.traits # <<>>

\* num_reviews of lines 607 and 631
NumReviews(r) == ClampCount(CHOOSE c \in RequestedCount(r) : TRUE)

\* the requested count handed on as it came, not clamped
NoKeyCountUnclamped(r) == CHOOSE c \in RequestedCount(r) : TRUE

\* what line 646 hands to build_fallback_personas
NoKeyCount(r) == NumReviews(r)

\* lines 645-660: no credential, or no provider library
NoKey ==
    /\ pc = "idle"
    /\ Valid(req)
    /\ ~configured
    /\ LET fb == CHOOSE f \in build_fallback_personas(req.text, NoKeyCount(req),
                                                      req.traits) : TRUE
       IN /\ session' = fb
          /\ response' = FallbackResponse("Gemini API key missing", fb, <<>>)
    /\ sessionWrites' = sessionWrites + 1
    /\ fallbackBuilds' = fallbackBuilds + 1
    /\ pc' = "done"
    /\ UNCHANGED <<envVars, poolVars, providerCalls, summaryCalls, summaryArg>>

\* the last position (from 0) at which a trait stands in the list
LastPosition(traits, char) ==
    CHOOSE j \in 0..(Len(traits) - 1) :
        /\ traits[j + 1] = char
        /\ \A k \in (j + 1)..(Len(traits) - 1) : traits[k + 1] # char

\* the levels taken in turn from the first two only
IntensitiesTwoLevels(i, traits) ==
    [char \in {traits[j] : j \in 1..Len(traits)} |->
        INTENSITY_LEVELS[((i + LastPosition(traits, char)) % 2) + 1]]

\* every task given the levels of task 0
IntensitiesUnshifted(i, traits) ==
    [char \in {traits[j] : j \in 1..Len(traits)} |->
        INTENSITY_LEVELS[(LastPosition(traits, char)
                            % Len(INTENSITY_LEVELS)) + 1]]

\* lines 664-668: the dict of task i + 1, keyed by trait, gets
\* INTENSITY_LEVELS[(i + j) % 3] for the trait at position j; of a trait
\* that stands at several positions the last assignment remains
Intensities(i, traits) ==
    [char \in {traits[j] : j \in 1..Len(traits)} |->
        INTENSITY_LEVELS[((i + LastPosition(traits, char))
                            % Len(INTENSITY_LEVELS)) + 1]]

BuildTaskList(r) ==
    [k \in 1..NumReviews(r) |->
        [id |-> k, prompt |-> r.text, traits |-> r.traits,
         intensities |-> Intensities(k - 1, r.traits),
         age_min |-> parse_int(r.ages[1]), age_max |-> parse_int(r.ages[2])]]

\* a pool with one worker for each task
PoolSizeUnbounded(num_reviews) == num_reviews

\* ThreadPoolExecutor(max_workers=min(10, num_reviews)), line 686
PoolSize(num_reviews) == Min(MAX_WORKERS, num_reviews)

\* lines 663-686: the task list is built and the pool is made
BuildTasks ==
    /\ pc = "idle"
    /\ Valid(req)
    /\ configured
    /\ tasks' = BuildTaskList(req)
    /\ pending' = {tasks'[k].id : k \in 1..Len(tasks')}
    /\ results' = [k \in 1..Len(tasks') |-> {}]
    /\ pc' = "submit"
    /\ UNCHANGED <<envVars, session, sessionWrites, submitted, threads, queue,
                   running, finished, yielded, reviews, errors, providerCalls,
                   fallbackBuilds, summaryCalls, summaryArg, maxRunning, response>>

TaskOf(id) == tasks[id]

\* executor.submit, lines 688-701: the work item is queued, and a worker
\* thread is started while the pool has fewer than max_workers
Submit ==
    /\ pc = "submit"
    /\ submitted < Len(tasks)
    /\ submitted' = submitted + 1
    /\ queue' = Append(queue, tasks[submitted + 1].id)
    /\ threads' = IF threads < PoolSize(Len(tasks)) THEN threads + 1 ELSE threads
    /\ pc' = IF submitted' = Len(tasks) THEN "collect" ELSE "submit"
    /\ UNCHANGED <<envVars, session, sessionWrites, tasks, running, results,
                   finished, pending, yielded, reviews, errors, providerCalls,
                   fallbackBuilds, summaryCalls, summaryArg, maxRunning, response>>

\* a worker thread that is free takes the oldest queued item and enters
\* generate_review, up to its provider call
Start ==
    /\ queue # <<>>
    /\ Cardinality(running) < threads
    /\ LET t == TaskOf(Head(queue))
       IN /\ running' = running \cup {t.id}
          /\ providerCalls' = providerCalls +
                (IF CallsProvider(configured, t.traits, Held(t.age_min),
                                  Held(t.age_max)) THEN 1 ELSE 0)
    /\ queue' = Tail(queue)
    /\ maxRunning' = Max(maxRunning, Cardinality(running'))
    /\ UNCHANGED <<envVars, session, sessionWrites, pc, tasks, submitted, threads,
                   results, finished, pending, yielded, reviews, errors,
                   fallbackBuilds, summaryCalls, summaryArg, response>>

\* the running tasks whose generate_review may end
MayReturn ==
    {t \in running :
        ~(t = stalled /\ CallsProvider(configured, TaskOf(t).traits,
                                       Held(TaskOf(t).age_min),
                                       Held(TaskOf(t).age_max)))}

\* the call made first, among those of a set of tasks
Oldest(ids) == {t \in ids : \A u \in ids : t <= u}

\* generate_review of a running task ends: its future is done
Finish ==
    \E t \in IF fifo THEN Oldest(MayReturn) ELSE MayReturn :
      \E out \in outputs :
        \E r \in generate_review(configured, TaskOf(t).traits,
                                 Held(TaskOf(t).age_min),
                                 Held(TaskOf(t).age_max), out) :
          /\ running' = running \ {t}
          /\ results' = [results EXCEPT ![t] = {r}]
          /\ finished' = Append(finished, t)
          /\ UNCHANGED <<envVars, session, sessionWrites, pc, tasks, submitted,
                         threads, queue, pending, yielded, reviews, errors,
                         providerCalls, fallbackBuilds, summaryCalls, summaryArg,
                         maxRunning, response>>

\* the same without the except clause of line 722: a raised exception leaves
\* no entry
FileResultDropRaised(id, r, revs, errs) ==
    IF r.status = "review" THEN <<Append(revs, LiveRecord(id, r)), errs>>
    ELSE IF r.status = "error"
         THEN <<revs, Append(errs, [id |-> id, err |-> r.err])>>
    ELSE <<revs, errs>>

\* the same with "if err" for "elif err" and an err that is never None: a
\* review leaves an error entry too
FileResultTwice(id, r, revs, errs) ==
    IF r.status = "review"
    THEN <<Append(revs, LiveRecord(id, r)),
           Append(errs, [id |-> id, err |-> r.err])>>
    ELSE <<revs, Append(errs, [id |-> id, err |-> r.err])>>

\* lines 706-723: the result of the future of task id is filed: a review is
\* appended to reviews, a returned error or a raised exception to errors
FileResult(id, r, revs, errs) ==
    IF r.status = "review" THEN <<Append(revs, LiveRecord(id, r)), errs>>
    ELSE <<revs, Append(errs, [id |-> id, err |-> r.err])>>

\* lines 704-723: as_completed yields a finished future and its result is
\* filed under reviews or errors
Collect ==
    /\ pc = "collect"
    /\ \E k \in 1..(IF fifo THEN Min(1, Len(finished)) ELSE Len(finished)) :
         LET id == finished[k]
             filed == FileResult(id, CHOOSE r \in results[id] : TRUE,
                                 reviews, errors)
         IN /\ finished' = RemoveAt(finished, k)
            /\ pending' = pending \ {id}
            /\ yielded' = Append(yielded, id)
            /\ reviews' = filed[1]
            /\ errors' = filed[2]
    /\ UNCHANGED <<envVars, session, sessionWrites, pc, tasks, submitted, threads,
                   queue, running, results, providerCalls, fallbackBuilds,
                   summaryCalls, summaryArg, maxRunning, response>>

\* the loop left at the first future yielded
JoinReadyFirst == yielded # <<>>

\* the loop left without the future of a call that does not return
JoinReadyAbandon == pending \subseteq {stalled}

\* the loop of line 704 ends once as_completed has yielded every future
JoinReady == pending = {}

\* the reviews left in the order they arrived
ReassembleUnsorted(list) == list

\* line 726
Reassemble(list) == SortById(list)

\* an empty review list treated as a success
BatchExhaustedNever(list) == FALSE

\* line 729: "if not reviews"
BatchExhausted(list) == list = <<>>

\* lines 724-750: the pool is left, the reviews are sorted, and either the
\* fallback is returned or the reviews are stored in the session
Join ==
    /\ pc = "collect"
    /\ JoinReady
    /\ reviews' = Reassemble(reviews)
    /\ IF BatchExhausted(reviews')
       THEN LET fb == CHOOSE f \in build_fallback_personas(req.text,
                           NumReviews(req), req.traits) : TRUE
            IN /\ session' = fb
               /\ response' = FallbackResponse("No responses generated", fb, errors)
               /\ fallbackBuilds' = fallbackBuilds + 1
               /\ pc' = "done"
       ELSE /\ session' = reviews'
            /\ pc' = "summary"
            /\ UNCHANGED <<response, fallbackBuilds>>
    /\ sessionWrites' = sessionWrites + 1
    /\ UNCHANGED <<envVars, tasks, submitted, threads, queue, running, results,
                   finished, pending, yielded, errors, providerCalls,
                   summaryCalls, summaryArg, maxRunning>>

(***************************************************************************)
(* generate_feedback_summary in detail, lines 438-591.  The provider's     *)
(* summary text is a sequence of lines, each of a kind:                    *)
(*   GLOWS, GROWS   a line "GLOWS:" or "GROWS:", in any case of letters    *)
(*   glow_loose, grow_loose   a line that holds "glow" (or "grow") and a   *)
(*                  colon but not the header itself, as "Glow points:"     *)
(*   bullet         a line that starts with "-" and has text               *)
(*   empty_bullet   a line that is "-" alone                               *)
(*   text           any other line                                         *)
(* An item of a result list is the line it came from, or the n-th entry of *)
(* one of the lists the code has ready.                                    *)
(***************************************************************************)
LineItem(i) == [src |-> "line", n |-> i]

FixedItems(src, count) == [k \in 1..count |-> [src |-> src, n |-> k]]

\* the bullet lines among lines lo..hi, in order, as the list comprehension
\* of lines 541-545 and 550-554 takes them: an empty bullet is taken too
BulletsBetween(lines, lo, hi) ==
    LET at == [i \in 1..Len(lines) |-> i]
        Taken(i) == /\ lo <= i /\ i <= hi
                    /\ lines[i] \in {"bullet", "empty_bullet"}
        picked == SelectSeq(at, Taken)
    IN [k \in 1..Len(picked) |-> LineItem(picked[k])]

\* lines 535-554: the sections after the first "GLOWS:" (up to the next
\* "GROWS:") and after the first "GROWS:" (up to the end)
StructuredParse(lines) ==
    LET heads(kind) == {i \in 1..Len(lines) : lines[i] = kind}
        first(set) == CHOOSE i \in set : \A j \in set : i <= j
        glowsAt == heads("GLOWS")
        growsAt == heads("GROWS")
        glows == IF glowsAt = {} THEN <<>>
                 ELSE LET from == first(glowsAt)
                          stops == {i \in growsAt : i > from}
                          to == IF stops = {} THEN Len(lines)
                                ELSE first(stops) - 1
                      IN BulletsBetween(lines, from + 1, to)
        grows == IF growsAt = {} THEN <<>>
                 ELSE BulletsBetween(lines, first(growsAt) + 1, Len(lines))
    IN <<glows, grows>>

\* lines 557-573: each bullet with text goes to the section of the last
\* line before it that named one
LooseParse(lines) ==
    LET SectionAt(i) ==
            LET heads == {j \in 1..(i - 1) :
                            lines[j] \in {"GLOWS", "glow_loose", "GROWS",
                                          "grow_loose"}}
            IN IF heads = {} THEN "none"
               ELSE LET last == CHOOSE j \in heads : \A l \in heads : l <= j
                    IN IF lines[last] \in {"GLOWS", "glow_loose"}
                       THEN "glows" ELSE "grows"
        at == [i \in 1..Len(lines) |-> i]
        InGlows(i) == lines[i] = "bullet" /\ SectionAt(i) = "glows"
        InGrows(i) == lines[i] = "bullet" /\ SectionAt(i) = "grows"
        glowsAt == SelectSeq(at, InGlows)
        growsAt == SelectSeq(at, InGrows)
    IN <<[k \in 1..Len(glowsAt) |-> LineItem(glowsAt[k])],
         [k \in 1..Len(growsAt) |-> LineItem(growsAt[k])]>>

\* the list returned whole
AllItems(list) == list

\* list[:5]
FirstItems(list) == SubSeq(list, 1, Min(SUMMARY_LIMIT, Len(list)))

\* what generate_feedback_summary gives: (glows, grows), or the exception
\* it raises, and whether it called the provider
SummaryResult(glows, grows, called) ==
    [raised |-> FALSE, glows |-> glows, grows |-> grows, called |-> called]

SummaryRaised == [SummaryResult(<<>>, <<>>, FALSE) EXCEPT !.raised = TRUE]

\* every review taken into the prompt, with text or without
FormattedFeedbacksAll(list) ==
    IF \E k \in 1..Len(list) : list[k].traits = "provider_mixed"
    THEN "TypeError" ELSE "prompt"

\* lines 453-484: the reviews that enter the prompt are those with text;
\* ", ".join(traits[:5]) raises TypeError for one whose traits hold a value
\* that is no string
FormattedFeedbacks(list) ==
    LET withText == {k \in 1..Len(list) : list[k].text # "empty"}
    IN IF \E k \in withText : list[k].traits = "provider_mixed"
       THEN "TypeError"
       ELSE IF withText = {} THEN "nothing" ELSE "prompt"

\* lines 525-582: the answer parsed, the lists of lines 576-579 put in for
\* a list that came out empty, and both cut to five
ParsedSummary(lines) ==
    LET structured == StructuredParse(lines)
        found == IF structured[1] = <<>> /\ structured[2] = <<>>
                 THEN LooseParse(lines) ELSE structured
        glows == IF found[1] = <<>> THEN FixedItems("generic_glow", 2)
                 ELSE found[1]
        grows == IF found[2] = <<>> THEN FixedItems("generic_grow", 2)
                 ELSE found[2]
    IN SummaryResult(FirstItems(glows), FirstItems(grows), TRUE)

\* generate_feedback_summary(reviews) when the provider answers answer:
\* [raises, lines]
FeedbackSummary(configured_, list, answer) ==
    IF ~configured_ \/ list = <<>> THEN SummaryResult(<<>>, <<>>, FALSE)
    ELSE IF FormattedFeedbacks(list) = "TypeError" THEN SummaryRaised
    ELSE IF FormattedFeedbacks(list) = "nothing"
         THEN SummaryResult(<<>>, <<>>, FALSE)
    ELSE IF answer.raises
         THEN SummaryResult(FixedItems("failed_glow", 3),
                            FixedItems("failed_grow", 3), TRUE)
    ELSE ParsedSummary(answer.lines)

\* generate_feedback_summary, lines 438-591: an empty list returns at once;
\* ", ".join(traits[:5]) of line 478 raises TypeError for a trait that is no
\* string; else the provider is called and the answer is parsed, replaced by
\* the generic lists, or (the provider raised) by the lists of lines 588-591
generate_feedback_summary(list) ==
    IF list = <<>> THEN {"empty"}
    ELSE IF \E k \in 1..Len(list) : list[k].traits = "provider_mixed"
    THEN {"TypeError"}
    ELSE {"parsed", "generic", "provider_failed"}

\* lines 755-771: the summary call, when its provider call returns, and the
\* response
Summarize ==
    /\ pc = "summary"
    /\ summaryCalls' = summaryCalls + 1
    /\ summaryArg' = reviews
    /\ \E s \in generate_feedback_summary(reviews) :
         IF s = "TypeError"
         THEN /\ HandleException("TypeError")
              /\ UNCHANGED providerCalls
         ELSE /\ s = "empty" \/ ~summaryStalled
              /\ providerCalls' = providerCalls + (IF s = "empty" THEN 0 ELSE 1)
              /\ response' = [NoResponse EXCEPT !.kind = "live", !.status = 200,
                                  !.reviews = reviews, !.summary = s,
                                  !.successCount = Len(reviews),
                                  !.errorCount = Len(errors), !.errors = errors]
              /\ pc' = "done"
              /\ UNCHANGED <<session, sessionWrites, fallbackBuilds>>
    /\ UNCHANGED <<envVars, poolVars>>

Next ==
    \/ Malformed
    \/ Invalid
    \/ NoKey
    \/ BuildTasks
    \/ Submit
    \/ Start
    \/ Finish
    \/ Collect
    \/ Join
    \/ Summarize

Spec == Init /\ [][Next]_vars

(***************************************************************************)
(* Batches larger than the pool: MAX_WORKERS + PoolExtra tasks, whose      *)
(* provider calls return in the order they were made; one call of the      *)
(* batch, or the summary's call, may never return.                         *)
(***************************************************************************)
PoolCount == MAX_WORKERS + PoolExtra

PoolNums == {{NotInt}, {IntVal(PoolCount)}}

PoolOutputs == {GoodJson}

InitPool ==
    InitWith(PoolNums, PoolOutputs, {0, 1, PoolCount}, BOOLEAN, TRUE)

SpecPool == InitPool /\ [][Next]_vars

\* every thread that can take a step is scheduled, and every provider call
\* that is not stalled returns
SpecPoolFair == SpecPool /\ WF_vars(Next)

(***************************************************************************)
(* A deployment without the credential: any requested count, since no      *)
(* task is ever built.                                                     *)
(***************************************************************************)
OfflineCounts == {-3, 0, 1, 5, 19, 20, 21, 25}

OfflineNums == {{}, {NotInt}} \cup {{IntVal(n)} : n \in OfflineCounts}

InitOffline ==
    /\ InitWith(OfflineNums, BatchOutputs, {0}, {FALSE}, FALSE)
    /\ ~configured

NextOffline == Malformed \/ Invalid \/ NoKey

SpecOffline == InitOffline /\ [][NextOffline]_vars

(***************************************************************************)
(* generate_review on its own: one call, over the answers the provider may *)
(* give and over the age bounds a task may carry.                          *)
(***************************************************************************)
MemberKinds == {"absent", "blank", "str", "num"}

RatingInputs ==
    {{}, {NotInt}} \cup {{IntVal(n)} : n \in {-5, 0, 7, 11, 57, 1000}}

\* parsed["review"] with its text and rating; the members of a value that
\* is no object are not there to be read
ReviewParts ==
    {<<review, "absent", {}>> : review \in ValueKinds \ {"dict"}}
    \cup {<<"dict", rtext, rating>> :
            rtext \in ValueKinds, rating \in RatingInputs}

\* parsed["persona"] with its name, other members, traits and age
PersonaParts ==
    {<<persona, "absent", "absent", "absent", {}>> :
        persona \in ValueKinds \ {"dict"}}
    \cup {<<"dict", pname, pother, ptraits, page>> :
            pname \in MemberKinds, pother \in {"absent", "str", "num"},
            ptraits \in {"absent", "strs", "mixed"},
            page \in {{}, {IntVal(41)}}}

JsonOutputs ==
    {JsonOutput(pp[1], rp[1], rp[2], rp[3], pp[2], pp[3], pp[4], pp[5]) :
        pp \in PersonaParts, rp \in ReviewParts}

PlainOutputs ==
    {ProviderRaises, PlainOutput("empty", {}, FALSE),
     PlainOutput("json_other", {}, TRUE)}
    \cup {PlainOutput("text", freeRating, freeBody) :
            freeRating \in {{}, {0}, {7}, {57}}, freeBody \in BOOLEAN}

ProviderOutputs == PlainOutputs \cup JsonOutputs

AgeInputs == {{}, {NotInt}} \cup {{IntVal(n)} : n \in {-1, 10, 20, 50, 150}}

\* a JSON answer that names an age for its persona
AgedJson ==
    JsonOutput("dict", "dict", "str", {IntVal(8)}, "str", "str", "absent",
               {IntVal(41)})

\* every answer under fixed age bounds, a few answers under every bounds, and
\* an answer with an age under bounds that hold 0
ReviewCalls ==
    {ReviewCall(SelectedTraits, {IntVal(-1)}, {IntVal(1)}, AgedJson)} \cup
    {ReviewCall(SelectedTraits, {IntVal(30)}, {IntVal(31)}, out) :
        out \in ProviderOutputs}
    \cup {ReviewCall(SelectedTraits, age_min, age_max, out) :
            age_min \in AgeInputs, age_max \in AgeInputs, out \in BatchOutputs}

InitReview ==
    /\ InitWith({{IntVal(1)}}, BatchOutputs, {0}, {FALSE}, FALSE)
    /\ req = [transport |-> "json", text |-> "idea", numReviews |-> {IntVal(1)},
              traits |-> SelectedTraits, ages |-> <<{IntVal(30)}, {IntVal(30)}>>]

\* one call of generate_review returns or raises
GenerateReviewCall ==
    /\ reviewIn = NoReviewCall
    /\ \E call \in ReviewCalls :
         \E r \in generate_review(configured, call.traits, call.age_min,
                                  call.age_max, call.out) :
           /\ reviewIn' = call
           /\ reviewOut' = {r}
    /\ UNCHANGED <<configured, req, outputs, stalled, summaryStalled, fifo,
                   session, sessionWrites, pc, poolVars, providerCalls,
                   fallbackBuilds, summaryCalls, summaryArg, response,
                   summaryIn, summaryOut, chatVars, callVars>>

NextReview == GenerateReviewCall

SpecReview == InitReview /\ [][NextReview]_vars

(***************************************************************************)
(* Batches whose provider answers carry ratings out of range, missing or   *)
(* unreadable, as JSON and as free text.                                   *)
(***************************************************************************)
RatedJson(rating) ==
    JsonOutput("dict", "dict", "str", rating, "str", "str", "absent", {})

RatingOutputs ==
    {RatedJson({IntVal(-5)}), RatedJson({IntVal(1000)}), RatedJson({NotInt}),
     RatedJson({}), PlainOutput("text", {0}, TRUE), PlainOutput("text", {57}, TRUE)}

RatingNums == {{IntVal(n)} : n \in 1..RatingBatch}

InitRatings == InitWith(RatingNums, RatingOutputs, {0}, {FALSE}, FALSE)

SpecRatings == InitRatings /\ [][Next]_vars

(***************************************************************************)
(* Batches whose provider answers leave out the persona's name or the      *)
(* review's body.                                                          *)
(***************************************************************************)
SparseOutputs ==
    {JsonOutput("dict", "dict", "str", {IntVal(8)}, "absent", "str", "absent", {}),
     JsonOutput("dict", "dict", "str", {IntVal(8)}, "blank", "str", "absent", {}),
     JsonOutput("absent", "dict", "str", {IntVal(8)}, "absent", "absent", "absent", {}),
     JsonOutput("dict", "dict", "blank", {IntVal(8)}, "str", "str", "absent", {}),
     JsonOutput("dict", "absent", "absent", {}, "str", "str", "absent", {}),
     PlainOutput("empty", {}, FALSE),
     PlainOutput("text", {7}, FALSE)}

SparseNums == {{IntVal(n)} : n \in 1..SparseBatch}

InitSparse == InitWith(SparseNums, SparseOutputs, {0}, {FALSE}, FALSE)

SpecSparse == InitSparse /\ [][Next]_vars

(***************************************************************************)
(* The task builder on its own: any requested count and trait lists of     *)
(* one to four traits, with and without a trait given twice.               *)
(***************************************************************************)
BuilderCounts == (0 - BuilderSpan)..(MAX_REVIEWS + BuilderSpan)

TraitLists ==
    {<<"analytical">>, <<"analytical", "skeptical">>,
     <<"analytical", "skeptical", "bold">>,
     <<"analytical", "skeptical", "bold", "frugal">>,
     <<"analytical", "analytical">>, <<"analytical", "skeptical", "analytical">>}

BuilderRequests ==
    [transport : {"json", "form"}, text : {"idea"},
     numReviews : {{}} \cup {{IntVal(n)} : n \in BuilderCounts},
     traits : TraitLists, ages : AgePairs]

InitBuilder ==
    /\ req \in BuilderRequests
    /\ IdleWith(BatchOutputs, {0}, {FALSE}, FALSE)
    /\ configured

NextBuilder == BuildTasks

SpecBuilder == InitBuilder /\ [][NextBuilder]_vars

(***************************************************************************)
(* generate_feedback_summary on its own: one call, over review lists with  *)
(* and without text and over the summary texts the provider may return.    *)
(***************************************************************************)
SummaryReview(id, text, traits) ==
    [id |-> id, origin |-> "live", text |-> text, rating |-> 7,
     name |-> "generated", traits |-> traits, template |-> 0]

\* review lists: empty, without any text, with text, and with traits the
\* provider gave
SummaryLists ==
    {<<>>,
     <<SummaryReview(1, "empty", "selected")>>,
     <<SummaryReview(1, "empty", "selected"), SummaryReview(2, "empty", "provider_mixed")>>,
     <<SummaryReview(1, "feedback", "selected")>>,
     <<SummaryReview(1, "empty", "selected"), SummaryReview(2, "feedback", "provider_strs")>>,
     <<SummaryReview(1, "feedback", "selected"), SummaryReview(2, "feedback", "provider_mixed")>>}

Header(kind) == IF kind = "none" THEN <<>> ELSE <<kind>>

Bullets(count) == [k \in 1..count |-> "bullet"]

\* a first header (or none) with its bullets, then a second with its own
SummaryTexts ==
    {Header(h1) \o Bullets(k) \o Header(h2) \o Bullets(m) :
        h1 \in {"GLOWS", "glow_loose", "GROWS", "none"},
        h2 \in {"GROWS", "grow_loose", "GLOWS", "none"},
        k \in 0..MaxBullets, m \in 0..MaxBullets}
    \cup {<<"text", "GLOWS", "empty_bullet", "bullet", "text", "bullet",
            "GROWS", "bullet", "empty_bullet">>,
          <<"glow_loose", "empty_bullet", "bullet", "grow_loose", "text">>,
          <<"text", "text">>}

\* every answer for a list with text, and a few answers for every list
SummaryCalls ==
    {SummaryCall(<<SummaryReview(1, "feedback", "selected")>>, FALSE, lines) :
        lines \in SummaryTexts}
    \cup {SummaryCall(list, raises, lines) :
            list \in SummaryLists, raises \in BOOLEAN,
            lines \in {<<>>, <<"GLOWS", "bullet", "GROWS", "bullet">>}}

InitSummary ==
    /\ IdleWith(BatchOutputs, {0}, {FALSE}, FALSE)
    /\ req = [transport |-> "json", text |-> "idea", numReviews |-> {IntVal(1)},
              traits |-> SelectedTraits, ages |-> <<{IntVal(30)}, {IntVal(30)}>>]

\* one call of generate_feedback_summary returns or raises
FeedbackSummaryCall ==
    /\ summaryIn = NoSummaryCall
    /\ \E call \in SummaryCalls :
         /\ summaryIn' = call
         /\ summaryOut' = {FeedbackSummary(configured, call.list, call.answer)}
    /\ UNCHANGED <<configured, req, outputs, stalled, summaryStalled, fifo,
                   session, sessionWrites, pc, poolVars, providerCalls,
                   fallbackBuilds, summaryCalls, summaryArg, response,
                   reviewIn, reviewOut, chatVars, callVars>>

NextSummary == FeedbackSummaryCall

SpecSummary == InitSummary /\ [][NextSummary]_vars

(***************************************************************************)
(* POST /api/chat/<id>, persona_reply, lines 839-897.                      *)
(***************************************************************************)
\* the persona of the session whose id is persona_id, or the first persona
\* when there is none
FindPersonaOrFirst(personas, persona_id) ==
    IF personas = <<>> THEN {} ELSE {personas[1]}

\* next((p for p in personas if p.get("id") == persona_id), None), line 855
FindPersona(personas, persona_id) ==
    LET at == {k \in 1..Len(personas) : personas[k].id = persona_id}
    IN IF at = {} THEN {}
       ELSE {personas[CHOOSE k \in at : \A l \in at : k <= l]}

ChatResponse(kind, status, called) ==
    [kind |-> kind, status |-> status, called |-> called]

\* persona_reply: .strip() of a message that is no string raises outside
\* the try of line 887; the checks of lines 850-857 and 865 come before
\* the provider call of line 890
persona_reply(configured_, personas, request) ==
    LET user_msg == StripOrEmpty(request.message)
    IN IF user_msg = "AttributeError"
       THEN ChatResponse("unhandled", 500, FALSE)
       ELSE IF user_msg = "empty" THEN ChatResponse("empty_message", 400, FALSE)
       ELSE IF FindPersona(personas, request.persona_id) = {}
            THEN ChatResponse("not_found", 404, FALSE)
       ELSE IF ~configured_ THEN ChatResponse("offline", 200, FALSE)
       ELSE IF request.answer = "raises" THEN ChatResponse("error", 500, TRUE)
       ELSE IF request.answer = "empty"
            THEN ChatResponse("reply_default", 200, TRUE)
       ELSE ChatResponse("reply", 200, TRUE)

\* what session["personas"] may hold when a chat request arrives: nothing,
\* the reviews of a batch in which task 2 failed, or fallback personas
ChatSessions ==
    {<<>>, PriorPersonas,
     <<LiveRecord(1, ReviewResult("feedback", 8, "provider", {30}, {30}, "selected")),
       LiveRecord(3, ReviewResult("feedback", 8, "generated", {30}, {30}, "selected"))>>}
    \cup build_fallback_personas("idea", HANDLER_REVIEWS, SelectedTraits)

ChatRequests ==
    {ChatRequest(persona_id, message, answer) :
        persona_id \in 0..MaxChatId, message \in ValueKinds,
        answer \in {"raises", "empty", "text"}}

InitChat ==
    /\ IdleWith(BatchOutputs, {0}, {FALSE}, FALSE)
    /\ req = [transport |-> "json", text |-> "idea", numReviews |-> {IntVal(1)},
              traits |-> SelectedTraits, ages |-> <<{IntVal(30)}, {IntVal(30)}>>]

\* an earlier POST /generate has replaced session["personas"], lines 656,
\* 749 and 781
SessionLeft ==
    /\ chatOut = {}
    /\ session = PriorPersonas
    /\ session' \in ChatSessions \ {PriorPersonas}
    /\ UNCHANGED <<envVars, poolVars, pc, sessionWrites, providerCalls,
                   fallbackBuilds, summaryCalls, summaryArg, response>>

\* what a chat request leaves untouched
ChatFrame ==
    <<configured, req, outputs, stalled, summaryStalled, fifo, session,
      sessionWrites, pc, poolVars, fallbackBuilds, summaryCalls, summaryArg,
      response, reviewIn, reviewOut, summaryIn, summaryOut, callLog, callOut,
      callCount>>

\* a chat request that keeps its exchange under the persona's history key
PersonaReplyLogging(requests) ==
    /\ chatCount < MaxChats
    /\ \E request \in requests :
         LET reply == persona_reply(configured, session, request)
             id == request.persona_id
         IN /\ chatIn' = request
            /\ chatOut' = {reply}
            /\ chatCount' = chatCount + 1
            /\ providerCalls' = providerCalls + (IF reply.called THEN 1 ELSE 0)
            /\ callHistory' =
                  IF reply.status = 200 /\ id \in DOMAIN callHistory
                  THEN [callHistory EXCEPT
                          ![id] = Append(@, [role |-> "assistant",
                                             content |-> "text", src |-> "chat",
                                             at |-> chatCount + 1])]
                  ELSE callHistory
    /\ UNCHANGED ChatFrame

\* one of the chat requests is answered, lines 839-897: the session is read
\* (line 854) and not written
PersonaReplyOf(requests) ==
    /\ chatCount < MaxChats
    /\ \E request \in requests :
         LET reply == persona_reply(configured, session, request)
         IN /\ chatIn' = request
            /\ chatOut' = {reply}
            /\ chatCount' = chatCount + 1
            /\ providerCalls' = providerCalls + (IF reply.called THEN 1 ELSE 0)
            /\ callHistory' = callHistory
    /\ UNCHANGED ChatFrame

\* the first chat request of a session is answered
PersonaReplyCall ==
    /\ chatOut = {}
    /\ PersonaReplyOf(ChatRequests)

\* chat, GET /chat/<id>, lines 797-837: the page of a persona of the
\* session, or the page of an unknown persona
ChatPage ==
    /\ chatCount < MaxChats
    /\ \E persona_id \in {1, 3} :
         /\ chatIn' = ChatRequest(persona_id, "absent", "raises")
         /\ chatOut' = {ChatResponse(IF FindPersona(session, persona_id) = {}
                                     THEN "unknown_page" ELSE "page",
                                     200, FALSE)}
    /\ chatCount' = chatCount + 1
    /\ UNCHANGED <<ChatFrame, providerCalls, callHistory>>

NextChat == SessionLeft \/ PersonaReplyCall

SpecChat == InitChat /\ [][NextChat]_vars

(***************************************************************************)
(* POST /api/call/<id>, call_persona, lines 942-1064.                      *)
(***************************************************************************)
\* one entry of a conversation history: content is "text", "empty" (a
\* missing or empty content) or "nondict" (the entry is no object); src and
\* at tell entries apart: "call" and the number of the call that appended
\* the entry, "client" and its position in the history the client sent, or
\* "prior" and its position in a history found in the session
Turn(role, content, src, at) ==
    [role |-> role, content |-> content, src |-> src, at |-> at]

\* list[-n:]
LastN(list, n) == SubSeq(list, Max(1, Len(list) - n + 1), Len(list))

\* history[-CALL_HISTORY_LIMIT * 2:] of line 1055, nothing dropped
StoredUncut(history) == history

\* history[-CALL_HISTORY_LIMIT * 2:] of line 1055
Stored(history) == LastN(history, CALL_HISTORY_LIMIT * 2)

\* _format_history, lines 927-939: the entries that make a prompt line, or
\* AttributeError for an entry without .get
FormatRaises(history) ==
    \E k \in 1..Len(LastN(history, CALL_HISTORY_LIMIT)) :
        LastN(history, CALL_HISTORY_LIMIT)[k].content = "nondict"

_format_history(history) ==
    SelectSeq(LastN(history, CALL_HISTORY_LIMIT),
              LAMBDA turn : turn.content # "empty")

\* a voice request: the id of its URL, payload["initial"], the kind of
\* payload["message"], payload["history"] when it is a list, and how the
\* speech service fares: "no_client" (line 951), "no_voice" (1019),
\* "raises" (convert raises), "no_audio" (1046) or "ok"
CallRequest(persona_id, initial, message, history, speech) ==
    [persona_id |-> persona_id, initial |-> initial, message |-> message,
     history |-> history, speech |-> speech]

CallResponse(request, kind, status, prompt, worked, called) ==
    [request |-> request, kind |-> kind, status |-> status, prompt |-> prompt,
     worked |-> worked, called |-> called]

\* the history the call works on, lines 971-973
WorkedHistory(stored, request) ==
    IF request.history = {} THEN stored
    ELSE LastN(CHOOSE h \in request.history : TRUE, CALL_HISTORY_LIMIT)

\* the entries lines 1050-1054 append
NewTurns(request, at) ==
    IF request.initial THEN <<Turn("assistant", "text", "call", at)>>
    ELSE <<Turn("user", IF StripOrEmpty(request.message) = "empty"
                        THEN "empty" ELSE "text", "call", at),
           Turn("assistant", "text", "call", at)>>

\* call_persona up to its session write: the response, with the history it
\* worked on and whether the chat provider was called
call_persona(configured_, stored, request) ==
    LET history == WorkedHistory(stored, request)
    IN IF request.speech = "no_client"
       THEN CallResponse(request, "unavailable", 503, <<>>, <<>>, FALSE)
       ELSE IF StripOrEmpty(request.message) = "AttributeError"
                 \/ FormatRaises(history)
       THEN CallResponse(request, "error", 500, <<>>, history, FALSE)
       ELSE IF request.speech = "no_voice"
       THEN CallResponse(request, "no_voice", 500, _format_history(history),
                         history, configured_)
       ELSE IF request.speech = "raises"
       THEN CallResponse(request, "error", 500, _format_history(history),
                         history, configured_)
       ELSE IF request.speech = "no_audio"
       THEN CallResponse(request, "no_audio", 500, _format_history(history),
                         history, configured_)
       ELSE CallResponse(request, "reply", 200, _format_history(history),
                         history, configured_)

\* histories a client sends: alternating user and assistant entries, the
\* last but one without content
ClientHistory(len, nondictAt) ==
    [k \in 1..len |->
        Turn(IF k % 2 = 1 THEN "user" ELSE "assistant",
             IF k = nondictAt THEN "nondict"
             ELSE IF k = len - 1 THEN "empty" ELSE "text",
             "client", k)]

ClientHistories ==
    {ClientHistory(0, 0), ClientHistory(CALL_HISTORY_LIMIT + 1, 0),
     ClientHistory(CALL_HISTORY_LIMIT + 1, 1),
     ClientHistory(CALL_HISTORY_LIMIT + 1, CALL_HISTORY_LIMIT)}

\* requests the speech service answers, and requests it fails
CallRequests ==
    {CallRequest(persona_id, initial, message, history, "ok") :
        persona_id \in CallIds, initial \in BOOLEAN,
        message \in {"empty", "str", "num"},
        history \in {{}} \cup {{h} : h \in ClientHistories}}
    \cup {CallRequest(1, FALSE, "str", history, speech) :
        history \in {{}, {ClientHistory(CALL_HISTORY_LIMIT + 1, 0)}},
        speech \in {"no_client", "no_voice", "raises", "no_audio"}}

\* a history earlier voice calls left in the session: user and assistant
\* entries in turn, the last one the assistant's; 2 * CALL_HISTORY_LIMIT - 1
\* entries after a greeting and five calls, 2 * CALL_HISTORY_LIMIT after six
\* calls or more
PriorHistory(len) ==
    [k \in 1..len |->
        Turn(IF (len - k) % 2 = 0 THEN "assistant" ELSE "user", "text",
             "prior", k)]

PriorHistories ==
    {PriorHistory(len) : len \in {0, 2 * CALL_HISTORY_LIMIT - 1,
                                  2 * CALL_HISTORY_LIMIT}}

\* one of the voice calls is answered; lines 1049-1056 store the history
\* when the call came to its reply
CallPersonaOf(requests) ==
    /\ callCount < MaxCalls
    /\ \E request \in requests :
         LET id == request.persona_id
             reply == call_persona(configured, callHistory[id], request)
             turns == NewTurns(request, callCount + 1)
         IN /\ callOut' = {reply}
            /\ providerCalls' = providerCalls + (IF reply.called THEN 1 ELSE 0)
            /\ callCount' = callCount + 1
            /\ IF reply.kind = "reply"
               THEN /\ callHistory' = [callHistory EXCEPT
                                         ![id] = Stored(reply.worked \o turns)]
                    /\ callLog' = [callLog EXCEPT
                                     ![id] = (IF request.history = {} THEN @
                                              ELSE CHOOSE h \in request.history : TRUE)
                                             \o turns]
               ELSE UNCHANGED <<callHistory, callLog>>
    /\ UNCHANGED <<configured, req, outputs, stalled, summaryStalled, fifo,
                   session, sessionWrites, pc, poolVars, fallbackBuilds,
                   summaryCalls, summaryArg, response, reviewIn, reviewOut,
                   summaryIn, summaryOut, chatVars>>

CallPersona == CallPersonaOf(CallRequests)

InitCall ==
    /\ IdleBeforeCalls(BatchOutputs, {0}, {FALSE}, FALSE)
    /\ req = [transport |-> "json", text |-> "idea", numReviews |-> {IntVal(1)},
              traits |-> SelectedTraits, ages |-> <<{IntVal(30)}, {IntVal(30)}>>]
    /\ \E prior \in PriorHistories :
          /\ callHistory = [id \in CallIds |-> IF id = 1 THEN prior ELSE <<>>]
          /\ callLog = callHistory

NextCall == CallPersona

SpecCall == InitCall /\ [][NextCall]_vars

(***************************************************************************)
(* Conversations: chat pages, chat replies and voice calls in any order,   *)
(* in a session a batch has filled.                                        *)
(***************************************************************************)
TalkChatRequests ==
    {ChatRequest(persona_id, message, answer) :
        persona_id \in {1, 3}, message \in {"blank", "str"},
        answer \in {"raises", "text"}}

TalkCallRequests ==
    {CallRequest(persona_id, initial, "str", {}, speech) :
        persona_id \in CallIds, initial \in BOOLEAN,
        speech \in {"no_audio", "ok"}}

InitTalk ==
    /\ IdleWith(BatchOutputs, {0}, {FALSE}, FALSE)
    /\ req = [transport |-> "json", text |-> "idea", numReviews |-> {IntVal(1)},
              traits |-> SelectedTraits, ages |-> <<{IntVal(30)}, {IntVal(30)}>>]

NextTalk ==
    \/ SessionLeft
    \/ ChatPage
    \/ PersonaReplyOf(TalkChatRequests)
    \/ CallPersonaOf(TalkCallRequests)

SpecTalk == InitTalk /\ [][NextTalk]_vars

(***************************************************************************)
(* Properties.                                                             *)
(***************************************************************************)
IdsOf(list) == {list[k].id : k \in 1..Len(list)}

StrictlyAscending(list) ==
    \A i, j \in 1..Len(list) : i < j => list[i].id < list[j].id

TaskIds == 1..Len(tasks)

Resolved(t) == results[t] # {}

\* the tasks whose generate_review returned an error or raised
Failed == {t \in TaskIds : Resolved(t) /\ \A r \in results[t] : r.status # "review"}

\* the pool has been left
PoolLeft == tasks # <<>> /\ pc \in {"summary", "done"}

\* as_completed yielded some task before a task with a smaller id
YieldedOutOfOrder ==
    \E i, j \in 1..Len(yielded) : i < j /\ yielded[i] > yielded[j]

\* C1: the reviews of a live response are in strictly ascending id order,
\* whatever the order in which the tasks completed
C1_AscendingIds ==
    response.kind = "live" => StrictlyAscending(response.reviews)

C1_Witness ==
    /\ response.kind = "live"
    /\ \E i, j \in 1..Len(yielded) :
         /\ i < j /\ yielded[i] > yielded[j]
         /\ {yielded[i], yielded[j]} \subseteq IdsOf(response.reviews)

\* C2: once the pool is left, reviews holds exactly the tasks that did not
\* fail and errors an entry for each task that failed, and a live response
\* carries these two lists
C2_FailureIsolation ==
    PoolLeft =>
      /\ IdsOf(reviews) = TaskIds \ Failed
      /\ IdsOf(errors) = Failed
      /\ Len(reviews) + Len(errors) = Len(tasks)
      /\ response.kind = "live" =>
            /\ response.reviews = reviews
            /\ response.errors = errors

C2_Witness ==
    /\ response.kind = "live"
    /\ Failed = {2}
    /\ IdsOf(response.reviews) = {1, 3}
    /\ IdsOf(response.errors) = {2}
    /\ yielded[1] = 2

\* C3: the summary call, the session write and the response of a batch come
\* only after every task has resolved; the summary is called at most once,
\* with the whole sorted review list
C3_JoinBarrier ==
    /\ summaryCalls <= 1
    /\ (tasks # <<>> /\ (summaryCalls > 0 \/ sessionWrites > 0
                         \/ pc \in {"summary", "done"}))
          => \A t \in TaskIds : Resolved(t)
    /\ summaryCalls = 1 =>
          /\ StrictlyAscending(summaryArg)
          /\ IdsOf(summaryArg) = TaskIds \ Failed
          /\ summaryArg # <<>>

C3_Witness ==
    /\ summaryCalls = 1
    /\ Len(summaryArg) >= 2
    /\ Failed # {}
    /\ YieldedOutOfOrder

\* C4: at most min(10, N) generate_review calls run at once
C4_BoundedConcurrency ==
    tasks # <<>> =>
      /\ Len(tasks) \in 1..20
      /\ Cardinality(running) <= Min(10, Len(tasks))
      /\ maxRunning <= Min(10, Len(tasks))

C4_Witness ==
    /\ Len(tasks) > 10
    /\ Cardinality(running) = 10
    /\ queue # <<>>

\* some generate_review call of the request never returns
ReviewStalls ==
    /\ configured /\ Valid(req)
    /\ stalled \in 1..NumReviews(req)
    /\ CallsProvider(configured, req.traits, req.ages[1], req.ages[2])

\* C5 as stated: if every generate_review call returns or raises, the request
\* responds; if one never returns, it never responds
C5_Original ==
    /\ (~ReviewStalls) ~> (pc = "done")
    /\ [](ReviewStalls => pc # "done")

\* C5: if every generate_review call and the summary's provider call return
\* or raise, the request responds; if a generate_review call never returns,
\* it never responds
C5_NoAbandonment ==
    /\ (~ReviewStalls /\ ~summaryStalled) ~> (pc = "done")
    /\ [](ReviewStalls => pc # "done")

C5_Witness ==
    /\ pc = "done"
    /\ response.kind = "live"
    /\ Len(tasks) > 10
    /\ maxRunning = 10
    /\ Len(response.reviews) = Len(tasks)

\* C6: when every task of a batch failed, the response is the error response
\* with the fallback list and the simulated-mode message, and the session
\* holds that list
C6_BatchExhaustion ==
    (PoolLeft /\ Failed = TaskIds) =>
      /\ pc = "done"
      /\ response.kind = "fallback"
      /\ response.status = 500
      /\ response.error = "No responses generated"
      /\ response.fallback # <<>>
      /\ \A k \in 1..Len(response.fallback) :
            response.fallback[k].origin = "fallback"
      /\ response.message = "simulated"
      /\ response.reviews = <<>>
      /\ session = response.fallback
      /\ fallbackBuilds = 1
      /\ summaryCalls = 0

C6_Witness ==
    /\ pc = "done"
    /\ Len(tasks) >= 2
    /\ Failed = TaskIds
    /\ YieldedOutOfOrder
    /\ Len(response.errors) = Len(tasks)
    /\ response.kind = "fallback"

\* the response carries a list of reviews or of fallback personas
CarriesPersonas ==
    \/ response.kind = "live" /\ response.reviews # <<>>
    \/ /\ response.kind = "fallback" /\ response.fallback # <<>>
       /\ response.message = "simulated"

\* C7: no request ends in an unhandled failure, and one that passes
\* validation ends with a review list or a fallback list
C7_NeverBareFailure ==
    pc = "done" =>
      /\ response.kind # "unhandled"
      /\ response.kind # "validation" => CarriesPersonas

\* C8: a request with a blank idea text or no trait is rejected with a
\* validation error before any work, and the session is left as it was
C8_RejectedBeforeWork ==
    (pc = "done" /\ (req.text = "blank" \/ req.traits = <<>>)) =>
      /\ response.kind = "validation"
      /\ response.status = 400
      /\ tasks = <<>>
      /\ providerCalls = 0
      /\ fallbackBuilds = 0
      /\ session = PriorPersonas

\* C9: without the credential a valid request calls no provider and starts
\* no task; it returns the error response with a fallback list of the
\* clamped count and empty glows and grows, and stores the list
C9_NoKeyFallback ==
    (pc = "done" /\ ~configured /\ Valid(req)) =>
      LET n == CHOOSE c \in RequestedCount(req) : TRUE
      IN /\ providerCalls = 0
         /\ tasks = <<>> /\ submitted = 0 /\ threads = 0 /\ running = {}
         /\ response.kind = "fallback"
         /\ response.status = 500
         /\ response.error = "Gemini API key missing"
         /\ Len(response.fallback) = Max(1, Min(20, n))
         /\ IdsOf(response.fallback) = 1..Max(1, Min(20, n))
         /\ response.summary = "empty"
         /\ session = response.fallback
         /\ sessionWrites = 1

C9_Witness ==
    /\ pc = "done" /\ ~configured /\ Valid(req)
    /\ req.numReviews = {IntVal(25)}
    /\ Len(session) = 20
    /\ response.kind = "fallback"

\* C10: generate_review returns an error only when the provider call raises
\* or the configuration is absent; whatever text the provider returns, the
\* result is a review
C10_ErrorOnlyOnProviderFailure ==
    \A r \in reviewOut :
      /\ r.status = "error" => (~configured \/ reviewIn.out.raises)
      /\ (/\ CallsProvider(configured, reviewIn.traits, reviewIn.age_min,
                           reviewIn.age_max)
          /\ ~reviewIn.out.raises) => r.status = "review"

\* the records a response returns and the session stores
ReturnedRecords ==
    {response.reviews[k] : k \in 1..Len(response.reviews)}
    \cup {response.fallback[k] : k \in 1..Len(response.fallback)}
    \cup {session[k] : k \in 1..Len(session)}

\* the rating asked of an answer: its integer brought to the nearest of 1
\* and 10, or 5 when it has none
RatingAskedOf(out) ==
    LET given == IF out.shape = "text" THEN out.freeRating
                 ELSE parse_int(out.rating)
    IN IF given = {} THEN 5
       ELSE LET n == CHOOSE x \in given : TRUE
            IN IF n < 1 THEN 1 ELSE IF n > 10 THEN 10 ELSE n

\* C11: every record returned or stored has a rating in 1..10, and a live
\* review's rating is the provider's brought into range: below 1 gives 1,
\* above 10 gives 10, none gives 5
C11_RatingInRange ==
    /\ \A rec \in ReturnedRecords : rec.rating \in 1..10
    /\ \A rec \in ReturnedRecords :
          rec.origin = "live" =>
            \E out \in outputs : rec.rating = RatingAskedOf(out)

C11_Witness ==
    /\ response.kind = "live"
    /\ \E i, j \in 1..Len(response.reviews) :
          /\ response.reviews[i].rating = 1
          /\ response.reviews[j].rating = 10
    /\ session = response.reviews

\* the records a response returns
ResponseRecords ==
    {response.reviews[k] : k \in 1..Len(response.reviews)}
    \cup {response.fallback[k] : k \in 1..Len(response.fallback)}

\* C12: every record a response returns has a name and a review text that
\* are not empty
C12_NameAndTextGiven ==
    \A rec \in ResponseRecords :
      /\ rec.name \notin {"empty", "none"}
      /\ rec.text \notin {"empty", "none"}

C12_Witness ==
    /\ response.kind = "live"
    /\ \E i, j \in 1..Len(response.reviews) :
          /\ response.reviews[i].text = "no_feedback"
          /\ response.reviews[j].text = "feedback"
          /\ response.reviews[j].name = "generated"

\* the traits of the request have no trait twice
TraitsDistinct ==
    \A i, j \in 1..Len(req.traits) : i # j => req.traits[i] # req.traits[j]

\* the task list has been built
TasksBuilt == pc # "idle" /\ configured /\ Valid(req)

\* C13 as stated: task i gets INTENSITY_LEVELS[(i + j) mod 3] for the trait
\* at every position j
C13_Original ==
    TasksBuilt =>
      \A k \in 1..Len(tasks) : \A j \in 1..Len(req.traits) :
        tasks[k].intensities[req.traits[j]] =
            INTENSITY_LEVELS[(((k - 1) + (j - 1)) % 3) + 1]

\* C13: the intensities of a task are those of the traits of the request,
\* and task i gets INTENSITY_LEVELS[(i + j) mod 3] for the trait at position
\* j, unless that trait stands at a later position too
C13_IntensitySchedule ==
    TasksBuilt =>
      \A k \in 1..Len(tasks) :
        /\ DOMAIN tasks[k].intensities =
               {req.traits[j] : j \in 1..Len(req.traits)}
        /\ \A j \in 1..Len(req.traits) :
              (\A l \in (j + 1)..Len(req.traits) : req.traits[l] # req.traits[j])
                => tasks[k].intensities[req.traits[j]] =
                      INTENSITY_LEVELS[(((k - 1) + (j - 1)) % 3) + 1]

C13_Witness ==
    /\ TasksBuilt
    /\ Len(tasks) >= 4
    /\ ~TraitsDistinct
    /\ tasks[2].intensities[req.traits[1]] = 9

C16_AgeWithinBounds ==
    \A r \in reviewOut :
      LET lo == parse_int(reviewIn.age_min)
          hi == parse_int(reviewIn.age_max)
      IN (configured /\ reviewIn.traits # <<>>) =>
           /\ (lo # {} /\ hi # {}) =>
                 /\ r.status # "raised"
                 /\ r.sampled # {}
                 /\ \A age \in r.sampled : \A a \in lo : \A b \in hi :
                       /\ (IF a <= b THEN a ELSE b) <= age
                       /\ age <= (IF a <= b THEN b ELSE a)
           /\ (lo = {} /\ hi = {}) =>
                 /\ r.status # "raised"
                 /\ r.sampled # {}
                 /\ \A age \in r.sampled : 22 <= age /\ age <= 65
           /\ (r.status = "review" /\ r.sampled # {0}) => r.age = r.sampled

C16_Witness ==
    /\ configured
    /\ reviewIn.age_min = {IntVal(50)}
    /\ reviewIn.age_max = {IntVal(20)}
    /\ \E r \in reviewOut : r.status = "review" /\ r.age = {20}

\* C17: for an empty review list, or one in which no review has text,
\* generate_feedback_summary returns two empty lists and calls no provider
C17_EmptyInEmptyOut ==
    \A res \in summaryOut :
      (\A k \in 1..Len(summaryIn.list) : summaryIn.list[k].text = "empty") =>
        /\ ~res.raised
        /\ res.glows = <<>> /\ res.grows = <<>>
        /\ ~res.called

C17_Witness ==
    /\ configured
    /\ Len(summaryIn.list) = 2
    /\ \A k \in 1..2 : summaryIn.list[k].text = "empty"
    /\ \E res \in summaryOut : res.glows = <<>> /\ ~res.called

\* the call came to parse the provider's answer
SummaryParsed ==
    /\ configured
    /\ summaryIn # NoSummaryCall
    /\ FormattedFeedbacks(summaryIn.list) = "prompt"
    /\ ~summaryIn.answer.raises

\* the line of the first "GLOWS:" when seven bullet lines follow it, else 0
SevenUnderGlows ==
    LET lines == summaryIn.answer.lines
        heads == {i \in 1..Len(lines) : lines[i] = "GLOWS"}
    IN IF heads = {} THEN 0
       ELSE LET g == CHOOSE i \in heads : \A j \in heads : i <= j
            IN IF /\ g + 7 <= Len(lines)
                  /\ \A k \in 1..7 : lines[g + k] = "bullet"
               THEN g ELSE 0

\* C18: whatever path returns, glows and grows have at most 5 items each;
\* of seven or more bullet lines under "GLOWS:" the first 5 are returned,
\* in their order
C18_AtMostFive ==
    \A res \in summaryOut :
      ~res.raised =>
        /\ Len(res.glows) <= 5
        /\ Len(res.grows) <= 5
        /\ (SummaryParsed /\ SevenUnderGlows > 0) =>
              res.glows = [k \in 1..5 |-> LineItem(SevenUnderGlows + k)]

C18_Witness ==
    /\ SummaryParsed
    /\ SevenUnderGlows > 0
    /\ Len(summaryIn.answer.lines) >= 16
    /\ \E res \in summaryOut : Len(res.glows) = 5 /\ Len(res.grows) = 5

\* C19: a batch that came to its summary call ends with the live response:
\* status 200, the reviews given to the summary, and a summary
C19_SummaryNeverFails ==
    (pc = "done" /\ summaryCalls > 0) =>
      /\ response.kind = "live"
      /\ response.status = 200
      /\ response.reviews = summaryArg
      /\ response.summary \in {"parsed", "generic", "provider_failed"}

\* C20: a chat request with a blank message gets the empty-message error,
\* one with a message for an id the session does not hold gets the
\* not-found error, and neither calls the provider
C20_ChatRejections ==
    \A reply \in chatOut :
      LET blank == chatIn.message \in {"absent", "empty", "blank"}
          unknown == \A k \in 1..Len(session) :
                        session[k].id # chatIn.persona_id
      IN /\ blank => reply = ChatResponse("empty_message", 400, FALSE)
         /\ (chatIn.message = "str" /\ unknown)
               => reply = ChatResponse("not_found", 404, FALSE)
         /\ (blank \/ unknown) => (~reply.called /\ providerCalls = 0)

C20_Witness ==
    /\ configured
    /\ Len(session) = 2
    /\ chatIn.persona_id = 2
    /\ chatIn.message = "str"
    /\ \E reply \in chatOut : reply.kind = "not_found"

\* C21: a request that passed validation has written session["personas"]
\* exactly once when it returns, and the list it left there is the one of
\* the response, with no record of the earlier batch
C21_SessionWrittenOnce ==
    (pc = "done" /\ Valid(req)) =>
      /\ sessionWrites = 1
      /\ session = (IF response.kind = "live" THEN response.reviews
                    ELSE response.fallback)
      /\ \A k \in 1..Len(session) : session[k].origin # "prior"

\* sub is list with some entries left out (the entries of list differ)
Subsequence(sub, list) ==
    sub = SelectSeq(list, LAMBDA t : \E k \in 1..Len(sub) : sub[k] = t)

\* C22: a voice call puts at most the 6 most recent entries of the history
\* it is given (the client's, else the stored one) into its prompt; the
\* history it stores has at most 12 entries, the most recent ones of the
\* conversation in order, the new reply last; a long history is cut without
\* an error, and a call that fails stores nothing
C22_BoundedHistory ==
    [][\A out \in callOut' :
         callCount' = callCount + 1 =>
           LET id == out.request.persona_id
               before == IF out.request.history = {} THEN callHistory[id]
                         ELSE CHOOSE h \in out.request.history : TRUE
               after == callHistory'[id]
           IN /\ Len(out.prompt) <= CALL_HISTORY_LIMIT
              /\ Subsequence(out.prompt, LastN(before, CALL_HISTORY_LIMIT))
              /\ \A i \in CallIds :
                    /\ Len(callHistory'[i]) <= 2 * CALL_HISTORY_LIMIT
                    /\ callHistory'[i] = LastN(callLog'[i], Len(callHistory'[i]))
              /\ out.kind = "reply" =>
                    /\ after # <<>>
                    /\ after[Len(after)] = [role |-> "assistant", content |-> "text",
                                            src |-> "call", at |-> callCount']
              /\ (out.kind = "reply" /\ out.request.history = {}) =>
                    Len(after) = Min(2 * CALL_HISTORY_LIMIT,
                                     Len(before) + (IF out.request.initial
                                                    THEN 1 ELSE 2))
              /\ out.kind # "reply" => callHistory' = callHistory
              /\ (/\ out.request.speech = "ok"
                  /\ out.request.message \in {"empty", "str"}
                  /\ out.request.history = {}) => out.status = 200
      ]_vars

\* a second call without a client history finds 12 stored entries, puts 6
\* of them into its prompt and stores 12 of the 16 the conversation has
C22_Witness ==
    /\ callCount = 2
    /\ Len(callLog[1]) = 2 * CALL_HISTORY_LIMIT + 4
    /\ Len(callHistory[1]) = 2 * CALL_HISTORY_LIMIT
    /\ callHistory[1][1].src = "prior"
    /\ \E out \in callOut :
          /\ out.kind = "reply"
          /\ out.request.persona_id = 1
          /\ out.request.history = {}
          /\ ~out.request.initial
          /\ Len(out.prompt) = CALL_HISTORY_LIMIT
          /\ Len(out.worked) = 2 * CALL_HISTORY_LIMIT

\* C23: whenever a request called build_fallback_personas, the call gave
\* its records: for a count of 1 or more exactly that many, record k with
\* id k, template (k - 1) mod 5 and rating 6 + (k - 1) mod 3
C23_FallbackAlwaysBuilt ==
    (pc = "done" /\ fallbackBuilds > 0) =>
      /\ response.kind = "fallback"
      /\ response.fallback # <<>>
      /\ response.error \in {"Gemini API key missing", "No responses generated"}
            => Len(response.fallback) = NumReviews(req)
      /\ \A k \in 1..Len(response.fallback) :
            /\ response.fallback[k].id = k
            /\ response.fallback[k].origin = "fallback"
            /\ response.fallback[k].template = ((k - 1) % FALLBACK_TEMPLATES) + 1
            /\ response.fallback[k].rating = FALLBACK_BASE_RATING + ((k - 1) % 3)

\* the metadata keys every persona record is to have
PersonaReviewKeys ==
    {"persona_name", "persona_descriptor", "characteristics",
     "characteristic_intensities", "sentiment_rating", "age", "gender",
     "location"}

\* C24: when every task failed the response carries the fallback builder's
\* records with the simulated-mode message, and each record has the fields
\* of a live record: id, review and the metadata keys of a persona review
C24_FallbackShape ==
    (pc = "done" /\ tasks # <<>> /\ Failed = TaskIds) =>
      /\ response.kind = "fallback"
      /\ response.message = "simulated"
      /\ response.fallback \in build_fallback_personas(req.text, NumReviews(req),
                                                       req.traits)
      /\ \A k \in 1..Len(response.fallback) :
            /\ response.fallback[k].fields = RecordKeys
            /\ PersonaReviewKeys \subseteq response.fallback[k].keys

\* the provider answered a JSON object whose review is missing or empty, or
\* has no text
EmptyReviewBody(out) ==
    /\ ~out.raises
    /\ out.shape = "json_dict"
    /\ \/ DictOrEmpty(out.review) = "emptydict"
       \/ out.review = "dict" /\ StripOrEmpty(out.rtext) = "empty"

\* C25: for a JSON answer without a review body, and for an empty answer,
\* generate_review returns the review "No feedback received." with rating 5
\* and a generated name
C25_MinimalReview ==
    \A r \in reviewOut :
      (/\ r.status # "raised"
       /\ configured
       /\ reviewIn.traits # <<>>
       /\ \/ EmptyReviewBody(reviewIn.out)
          \/ ~reviewIn.out.raises /\ reviewIn.out.shape = "empty") =>
        /\ r.status = "review"
        /\ r.text = "no_feedback"
        /\ r.rating = DEFAULT_RATING
        /\ r.name = "generated"

\* C26: a review generate_review returns has one sampled age, and that age
\* is the one its prompt stated, the one in its metadata and the one
\* appended to the persona's name
C26_OneAgeThroughout ==
    \A r \in reviewOut :
      r.status = "review" =>
        /\ Cardinality(r.sampled) = 1
        /\ r.prompted = r.sampled
        /\ r.age = r.sampled
        /\ r.nameAge = r.sampled

\* C27: with one age bound given, generate_review draws an age between
\* ageMin and 100, or between 18 and ageMax, whatever the bound, and does
\* not raise
C27_OneBoundResolves ==
    \A r \in reviewOut :
      LET lo == parse_int(reviewIn.age_min)
          hi == parse_int(reviewIn.age_max)
      IN (configured /\ reviewIn.traits # <<>>) =>
           /\ (lo # {} /\ hi = {}) =>
                 /\ r.status # "raised"
                 /\ r.sampled # {}
                 /\ \A age \in r.sampled : \A a \in lo :
                       a <= age /\ age <= AGE_CEILING
           /\ (lo = {} /\ hi # {}) =>
                 /\ r.status # "raised"
                 /\ r.sampled # {}
                 /\ \A age \in r.sampled : \A b \in hi :
                       AGE_FLOOR <= age /\ age <= b

\* C28: a request for a chat page, a chat reply or a voice call leaves
\* session["personas"] as it was, and a request for a chat page or a chat
\* reply leaves the voice histories as they were too: it writes no session
\* key
C28_PersonasNeverMutated ==
    [][/\ (chatCount' # chatCount \/ callCount' # callCount) =>
             /\ session' = session
             /\ sessionWrites' = sessionWrites
       /\ chatCount' # chatCount => callHistory' = callHistory
      ]_vars

\* a session a batch filled, after two chat requests and two voice calls,
\* the last of each answered
C28_Witness ==
    /\ chatCount = 2
    /\ callCount = 2
    /\ Len(session) = 2
    /\ session[1].origin = "live"
    /\ callHistory[1] # <<>>
    /\ \E reply \in chatOut : reply.kind = "reply" /\ reply.called
    /\ \E out \in callOut : out.kind = "reply"

\* how many entries of list carry the id
EntriesOf(list, id) == Cardinality({k \in 1..Len(list) : list[k].id = id})

\* C29: a live response accounts for every task once: each id from 1 to the
\* clamped count is in one review or in one error entry and not in both, no
\* other id is in either, and successCount + errorCount is the clamped count
C29_EveryTaskAccounted ==
    (pc = "done" /\ response.kind = "live") =>
      /\ \A id \in 1..NumReviews(req) :
            EntriesOf(response.reviews, id) + EntriesOf(response.errors, id) = 1
      /\ IdsOf(response.reviews) \cup IdsOf(response.errors) = 1..NumReviews(req)
      /\ response.successCount = Len(response.reviews)
      /\ response.errorCount = Len(response.errors)
      /\ response.successCount + response.errorCount = NumReviews(req)

\* three tasks yielded out of order, two with a review and one failed
C29_Witness ==
    /\ pc = "done"
    /\ response.kind = "live"
    /\ Len(tasks) = 3
    /\ YieldedOutOfOrder
    /\ response.successCount = 2
    /\ response.errorCount = 1

=============================================================================
